---- MODULE Spec2Model ----
(***************************************************************************)
(* Crash capture of the CTD plugins: the vectored exception handler of     *)
(* mods/newvegas/cpp/veh.cpp (classifier, module resolver, stack walker,   *)
(* record hand-off) and the load hook of mods/newvegas/cpp/plugin.cpp that *)
(* registers it.                                                           *)
(*                                                                         *)
(* A DWORD fault code is kept as the pair <<high word, low word>> so that  *)
(* 0xC0000005 and its neighbours stay exact.  Addresses are 32-bit values  *)
(* below 2^31.  Text is a sequence of tokens; the path separators "\\"     *)
(* and "/" are tokens of their own.                                        *)
(***************************************************************************)
EXTENDS Integers, Sequences, FiniteSets, TLC

(***************************************************************************)
(* Bounds of the model.                                                    *)
(***************************************************************************)
\* frames on the faulting thread's stack above the faulting one
MaxDepth == 2
\* calls of the load hook the host makes
MaxLoads == 2

(***************************************************************************)
(* Program constants.                                                      *)
(***************************************************************************)
\* for (int i = 0; i < 64; ++i)
MaxFrames == 64

\* <winnt.h>/<winbase.h> values of the codes the switch names
EXCEPTION_ACCESS_VIOLATION == <<49152, 5>>
EXCEPTION_STACK_OVERFLOW == <<49152, 253>>
EXCEPTION_ILLEGAL_INSTRUCTION == <<49152, 29>>
EXCEPTION_INT_DIVIDE_BY_ZERO == <<49152, 148>>
EXCEPTION_INT_OVERFLOW == <<49152, 149>>
EXCEPTION_PRIV_INSTRUCTION == <<49152, 150>>
EXCEPTION_IN_PAGE_ERROR == <<49152, 6>>
EXCEPTION_INVALID_HANDLE == <<49152, 8>>
\* case 0xC0000374
HEAP_CORRUPTION == <<49152, 884>>
\* case 0xC0000409
STACK_BUFFER_OVERRUN == <<49152, 1033>>

\* a first-chance informational exception (0x80000003), not named by the switch
EXCEPTION_BREAKPOINT == <<32768, 3>>

\* the handler's only disposition
EXCEPTION_CONTINUE_SEARCH == "EXCEPTION_CONTINUE_SEARCH"

\* return "unknown";
Unknown == <<"unknown">>

(***************************************************************************)
(* The loader's module table the resolver queries.  An image occupies      *)
(* [base, base + size); its path is dir followed by its file name.         *)
(***************************************************************************)
Modules ==
    { [id |-> 1, base |-> 4194304, size |-> 8192,
       dir |-> <<"C:", "\\", "Games", "/">>, file |-> "FalloutNV.exe"],
      [id |-> 2, base |-> 268435456, size |-> 4096,
       dir |-> <<>>, file |-> "ctd_newvegas.dll"] }

ModuleIds == {m.id : m \in Modules}

NoModule == [id |-> 0, base |-> 0, size |-> 0, dir |-> <<>>, file |-> ""]

\* the path GetModuleFileNameA writes for a module
ModulePath(m) == m.dir \o <<m.file>>

\* B + 0x1234 inside module 1
AddrInExe == 4194304 + 4660
\* the first byte of module 2
AddrDllBase == 268435456 + 0
\* mapped by no image
AddrHeap == 16 * 4096

(***************************************************************************)
(* is_fatal_exception: the switch over the fault code.                     *)
(***************************************************************************)
\* a classifier that takes every code with the top bit set for fatal
is_fatal_exception_any_error(code) == code[1] >= 32768

\* the switch without case 0xC0000374
is_fatal_exception_no_heap(code) ==
    CASE code = EXCEPTION_ACCESS_VIOLATION -> TRUE
      [] code = EXCEPTION_STACK_OVERFLOW -> TRUE
      [] code = EXCEPTION_ILLEGAL_INSTRUCTION -> TRUE
      [] code = EXCEPTION_INT_DIVIDE_BY_ZERO -> TRUE
      [] code = EXCEPTION_INT_OVERFLOW -> TRUE
      [] code = EXCEPTION_PRIV_INSTRUCTION -> TRUE
      [] code = EXCEPTION_IN_PAGE_ERROR -> TRUE
      [] code = EXCEPTION_INVALID_HANDLE -> TRUE
      [] code = STACK_BUFFER_OVERRUN -> TRUE
      [] OTHER -> FALSE

is_fatal_exception(code) ==
    CASE code = EXCEPTION_ACCESS_VIOLATION -> TRUE
      [] code = EXCEPTION_STACK_OVERFLOW -> TRUE
      [] code = EXCEPTION_ILLEGAL_INSTRUCTION -> TRUE
      [] code = EXCEPTION_INT_DIVIDE_BY_ZERO -> TRUE
      [] code = EXCEPTION_INT_OVERFLOW -> TRUE
      [] code = EXCEPTION_PRIV_INSTRUCTION -> TRUE
      [] code = EXCEPTION_IN_PAGE_ERROR -> TRUE
      [] code = EXCEPTION_INVALID_HANDLE -> TRUE
      [] code = HEAP_CORRUPTION -> TRUE
      [] code = STACK_BUFFER_OVERRUN -> TRUE
      [] OTHER -> FALSE

(***************************************************************************)
(* Module resolver.                                                        *)
(***************************************************************************)
\* GetModuleHandleExA(GET_MODULE_HANDLE_EX_FLAG_FROM_ADDRESS, address, &module):
\* the image whose mapped range holds the address, NoModule when it fails
GetModuleHandleExA(address) ==
    IF \E m \in Modules : m.base <= address /\ address < m.base + m.size
    THEN CHOOSE m \in Modules : m.base <= address /\ address < m.base + m.size
    ELSE NoModule

\* path.find_last_of("\\/"): the last position holding a separator, 0 for npos
find_last_of(path, seps) ==
    IF \E p \in 1..Len(path) : path[p] \in seps
    THEN CHOOSE p \in 1..Len(path) :
            /\ path[p] \in seps
            /\ \A q \in (p + 1)..Len(path) : path[q] \notin seps
    ELSE 0

\* the file name taken after the last backslash only
FileNameOf_backslash_only(path) ==
    LET pos == find_last_of(path, {"\\"})
    IN  IF pos # 0 THEN SubSeq(path, pos + 1, Len(path)) ELSE path

\* (pos != npos) ? path.substr(pos + 1) : path
FileNameOf(path) ==
    LET pos == find_last_of(path, {"\\", "/"})
    IN  IF pos # 0 THEN SubSeq(path, pos + 1, Len(path)) ELSE path

\* nameless: the ids of the modules for which GetModuleFileNameA returns 0
get_module_name(address, nameless) ==
    LET module == GetModuleHandleExA(address)
    IN  IF module # NoModule /\ module.id \notin nameless
        THEN FileNameOf(ModulePath(module))
        ELSE Unknown

\* a resolver that never finds the base
get_module_base_zero(address) == 0

get_module_base(address) ==
    LET module == GetModuleHandleExA(address)
    IN  IF module # NoModule THEN module.base ELSE 0

(***************************************************************************)
(* Inputs: the EXCEPTION_POINTERS the OS passes, the faulting thread's     *)
(* stack as the unwinder sees it, and the loader's file-name lookups.      *)
(***************************************************************************)
Threads == {1, 2}

\* codes raised in the capture model: one fatal, one informational
CodeSet == {EXCEPTION_ACCESS_VIOLATION, EXCEPTION_BREAKPOINT}
ExcAddrs == {AddrInExe, AddrHeap}
Eips == {0, AddrInExe, AddrHeap}
StackAddrs == {AddrDllBase, AddrHeap}
\* the callers' program counters, innermost first
Stacks == UNION {[1..n -> StackAddrs] : n \in 0..MaxDepth}
\* what lies beyond the last caller: a frame the unwinder fails on, a null
\* return address, or a frame pointer that leads back to the first frame
ChainEnds == {"fail", "zero", "loop"}

NoFault ==
    [info |-> FALSE, record |-> FALSE, context |-> FALSE,
     code |-> <<0, 0>>, address |-> 0, eip |-> 0, stack |-> <<>>,
     chainEnd |-> "fail", nameless |-> {}]

\* info == nullptr
NullInfoFaults == {NoFault}

\* info->ExceptionRecord == nullptr
NullRecordFaults ==
    {[NoFault EXCEPT !.info = TRUE, !.context = c] : c \in BOOLEAN}

\* info->ContextRecord == nullptr
NullContextFaults ==
    {[NoFault EXCEPT !.info = TRUE, !.record = TRUE, !.code = c, !.address = a] :
        c \in CodeSet, a \in ExcAddrs}

\* what the OS builds for a fault it dispatches
OsFaults ==
    [info : {TRUE}, record : {TRUE}, context : {TRUE},
     code : CodeSet, address : ExcAddrs, eip : Eips, stack : Stacks,
     chainEnd : ChainEnds, nameless : SUBSET ModuleIds]

Faults == NullInfoFaults \cup NullRecordFaults \cup NullContextFaults \cup OsFaults

(***************************************************************************)
(* StackWalk: the n-th call for one fault.  The first call reports the     *)
(* frame the initialised STACKFRAME describes (AddrPC = Eip); each later   *)
(* call unwinds one frame of the thread's stack.                           *)
(***************************************************************************)
ChainFrames(f) == <<f.eip>> \o f.stack

StackWalk(f, n) ==
    LET frames == ChainFrames(f)
    IN  IF n <= Len(frames) THEN [ok |-> TRUE, pc |-> frames[n]]
        ELSE CASE f.chainEnd = "fail" -> [ok |-> FALSE, pc |-> 0]
               [] f.chainEnd = "zero" -> [ok |-> TRUE, pc |-> 0]
               [] f.chainEnd = "loop" ->
                    [ok |-> TRUE, pc |-> frames[((n - 1) % Len(frames)) + 1]]

(***************************************************************************)
(* operator<< on an integer: its digits in the stream's current base.      *)
(***************************************************************************)
RECURSIVE Digits(_, _)
Digits(n, base) ==
    IF n < base THEN <<n>> ELSE Append(Digits(n \div base, base), n % base)

(***************************************************************************)
(* Host adapters: the plugin.cpp of each host environment.  The loader     *)
(* passes an interface with its packed version, an editor flag and, on     *)
(* request, a messaging interface that may be absent.                      *)
(***************************************************************************)
Adapters == {"fallout3", "falloutnv", "newvegas", "skyrim", "fallout4"}

\* a packed 32-bit version, and (v >> 8 * n) & 0xFF
Pack(b3, b2, b1, b0) == ((b3 * 256 + b2) * 256 + b1) * 256 + b0
Byte(v, n) == (v \div (256 ^ n)) % 256

\* the grid of versions a loader reports
HighBytes == {0, 1, 6}
LowBytes == {0, 1, 255}
Versions ==
    {Pack(b3, b2, b1, b0) : b3 \in HighBytes, b2 \in LowBytes,
                            b1 \in LowBytes, b0 \in LowBytes}

\* the minimum the adapter was built against; the loader SDK's header is not
\* part of the sources, the value stands for one inside the grid
FOSE_VERSION_INTEGER == Pack(1, 0, 0, 0)
NVSE_VERSION_INTEGER == Pack(1, 0, 0, 0)

HostInterfaces == [version : Versions, isEditor : BOOLEAN, messaging : BOOLEAN]

NoInfo == [infoVersion |-> "", name |-> "", version |-> 0]

\* info->infoVersion = ...; info->name = "CTD Crash Reporter"; info->version = 1;
PluginInfo(a) ==
    [infoVersion |-> CASE a \in {"fallout3", "falloutnv"} -> "PluginInfo::kInfoVersion"
                       [] a = "newvegas" -> "1"
                       [] a = "skyrim" -> "SKSE::PluginInfo::kVersion"
                       [] a = "fallout4" -> "F4SE::PluginInfo::kVersion",
     name |-> "CTD Crash Reporter",
     version |-> 1]

\* fallout3: version check, then editor check
FOSEPlugin_Query(fose) ==
    IF fose.version < FOSE_VERSION_INTEGER THEN FALSE
    ELSE IF fose.isEditor THEN FALSE
    ELSE TRUE

\* falloutnv: version check, then editor check
falloutnv_NVSEPlugin_Query(nvse) ==
    IF nvse.version < NVSE_VERSION_INTEGER THEN FALSE
    ELSE IF nvse.isEditor THEN FALSE
    ELSE TRUE

\* newvegas: editor check only
newvegas_NVSEPlugin_Query(nvse) == IF nvse.isEditor THEN FALSE ELSE TRUE

\* skyrim: editor check only
SKSEPlugin_Query(skse) == IF skse.isEditor THEN FALSE ELSE TRUE

\* fallout4: editor check only
F4SEPlugin_Query(f4se) == IF f4se.isEditor THEN FALSE ELSE TRUE

Plugin_Query(a, iface) ==
    CASE a = "fallout3" -> FOSEPlugin_Query(iface)
      [] a = "falloutnv" -> falloutnv_NVSEPlugin_Query(iface)
      [] a = "newvegas" -> newvegas_NVSEPlugin_Query(iface)
      [] a = "skyrim" -> SKSEPlugin_Query(iface)
      [] a = "fallout4" -> F4SEPlugin_Query(iface)

\* the adapters whose load hook asks for the messaging interface
Listens(a) == a # "newvegas"

\* the message types the host's messaging facility sends
MessageTypes(a) ==
    CASE a \in {"fallout3", "falloutnv", "newvegas"} ->
            {"kMessage_PostLoad", "kMessage_PostLoadGame", "kMessage_ExitGame",
             "kMessage_SaveGame"}
      [] a = "skyrim" -> {"kDataLoaded", "kPostLoad", "kNewGame"}
      [] a = "fallout4" -> {"kGameDataReady", "kPostLoad", "kGameLoaded"}

\* MessageHandler: the calls of ctd::on_data_loaded() one message leads to
MessageHandler(a, type) ==
    CASE a \in {"fallout3", "falloutnv"} ->
            IF type \in {"kMessage_PostLoadGame", "kMessage_PostLoad"} THEN 1 ELSE 0
      [] a = "skyrim" -> IF type = "kDataLoaded" THEN 1 ELSE 0
      [] a = "fallout4" -> IF type = "kGameDataReady" THEN 1 ELSE 0

\* snprintf("%d.%d.%d", (version >> 24) & 0xFF, (version >> 16) & 0xFF,
\*          version & 0xFF): the components between the dots
get_fose_version(g_fose, fose) ==
    IF g_fose
    THEN <<Digits(Byte(fose.version, 3), 10), Digits(Byte(fose.version, 2), 10),
           Digits(Byte(fose.version, 0), 10)>>
    ELSE Unknown

get_nvse_version(g_nvse, nvse) ==
    IF g_nvse
    THEN <<Digits(Byte(nvse.version, 3), 10), Digits(Byte(nvse.version, 2), 10),
           Digits(Byte(nvse.version, 0), 10)>>
    ELSE Unknown

\* newvegas: return rust::String("6.3.0");
newvegas_get_nvse_version == <<Digits(6, 10), Digits(3, 10), Digits(0, 10)>>

\* the adapters whose version provider is part of the sources' packed parsing
VersionProviders == {"fallout3", "falloutnv", "newvegas"}

get_loader_version(a, g_iface, iface) ==
    CASE a = "fallout3" -> get_fose_version(g_iface, iface)
      [] a = "falloutnv" -> get_nvse_version(g_iface, iface)
      [] a = "newvegas" -> newvegas_get_nvse_version

\* the adapter before the loader has called any of its hooks
NewHost(a, iface) ==
    [adapter |-> a, iface |-> iface, pc |-> "start", info |-> NoInfo,
     accepted |-> "none", g_iface |-> FALSE, listener |-> FALSE,
     msgs |-> 0, msg |-> "none", called |-> 0, asked |-> FALSE,
     askedLive |-> FALSE, versionText |-> <<>>]

\* the newvegas adapter in a game the loader accepts
GameHost ==
    NewHost("newvegas", [version |-> Pack(6, 1, 0, 0), isEditor |-> FALSE,
                         messaging |-> TRUE])

(***************************************************************************)
(* State.                                                                  *)
(***************************************************************************)
VARIABLES
    vehChain,   \* entries of veh_handler in the OS's vectored-handler list
    loads,      \* calls of NVSEPlugin_Load so far
    sinkInit,   \* ctd::init() has returned
    symInit,    \* the process's DbgHelp symbol handler is initialised
    h,          \* per thread: the fault being dispatched and veh_handler's locals
    obs,        \* per thread: what the current invocation and fault have done
    host        \* the host adapter: its globals and what the loader has seen of it

vars == <<vehChain, loads, sinkInit, symInit, h, obs, host>>

NoData == [code |-> <<0, 0>>, address |-> 0, stack_trace |-> <<>>,
           faulting_module |-> <<>>]

Idle ==
    [pc |-> "idle", fault |-> NoFault, todo |-> 0, i |-> 0, hex |-> FALSE,
     trace |-> <<>>, data |-> NoData, ret |-> "none"]

NoObs ==
    [built |-> 0, walks |-> 0, steps |-> 0, calls |-> 0, faultCalls |-> 0,
     returned |-> 0, handed |-> <<>>]

Init ==
    /\ vehChain = 0
    /\ loads = 0
    /\ sinkInit = FALSE
    /\ symInit = FALSE
    /\ h = [t \in Threads |-> Idle]
    /\ obs = [t \in Threads |-> NoObs]
    /\ host = GameHost

(***************************************************************************)
(* Load hook (plugin.cpp) and registration (veh.cpp).                      *)
(***************************************************************************)
\* AddVectoredExceptionHandler(1, veh_handler): one more entry, always
register_veh_handler(chain) == chain + 1

\* NVSEPlugin_Load: register_veh_handler(); ctd::init(); return true;
NVSEPlugin_Load ==
    /\ loads < MaxLoads
    /\ loads' = loads + 1
    /\ vehChain' = register_veh_handler(vehChain)
    /\ sinkInit' = TRUE
    /\ UNCHANGED <<symInit, h, obs, host>>

(***************************************************************************)
(* The OS's dispatch of a fault on thread t to the vectored handlers.      *)
(***************************************************************************)
Raise(t, f) ==
    /\ h' = [h EXCEPT ![t] = [Idle EXCEPT !.pc = "dispatch", !.fault = f,
                                           !.todo = vehChain]]
    /\ obs' = [obs EXCEPT ![t] = NoObs]
    /\ UNCHANGED <<vehChain, loads, sinkInit, symInit, host>>

Fault(t) ==
    /\ h[t].pc = "idle"
    /\ \E f \in Faults : Raise(t, f)

\* the access violation veh_handler itself raised is dispatched like any other
NestedFault(t) ==
    /\ h[t].pc = "aborted"
    /\ \E f \in OsFaults :
        /\ f.code = EXCEPTION_ACCESS_VIOLATION
        /\ Raise(t, f)

\* the next entry of the list is called: veh_handler(info)
Dispatch(t) ==
    /\ h[t].pc = "dispatch"
    /\ h[t].todo > 0
    /\ h' = [h EXCEPT ![t] = [Idle EXCEPT !.pc = "entry", !.fault = h[t].fault,
                                           !.todo = h[t].todo - 1]]
    /\ obs' = [obs EXCEPT ![t] = [NoObs EXCEPT
                    !.faultCalls = obs[t].faultCalls,
                    !.returned = obs[t].returned,
                    !.handed = obs[t].handed]]
    /\ UNCHANGED <<vehChain, loads, sinkInit, symInit, host>>

\* every entry answered EXCEPTION_CONTINUE_SEARCH: the host's own handling goes on
DispatchDone(t) ==
    /\ h[t].pc = "dispatch"
    /\ h[t].todo = 0
    /\ h' = [h EXCEPT ![t] = Idle]
    /\ obs' = [obs EXCEPT ![t] = NoObs]
    /\ UNCHANGED <<vehChain, loads, sinkInit, symInit, host>>

(***************************************************************************)
(* veh_handler.                                                            *)
(***************************************************************************)
\* return EXCEPTION_CONTINUE_SEARCH;
Return(t) ==
    /\ h' = [h EXCEPT ![t].pc = "dispatch", ![t].ret = EXCEPTION_CONTINUE_SEARCH]
    /\ obs' = [obs EXCEPT ![t].returned = @ + 1]

\* if (!info || !info->ExceptionRecord) return EXCEPTION_CONTINUE_SEARCH;
veh_handler_null(t) ==
    /\ h[t].pc = "entry"
    /\ ~h[t].fault.info \/ ~h[t].fault.record
    /\ Return(t)
    /\ UNCHANGED <<vehChain, loads, sinkInit, symInit, host>>

\* if (!is_fatal_exception(code)) return EXCEPTION_CONTINUE_SEARCH;
veh_handler_ignore(t) ==
    /\ h[t].pc = "entry"
    /\ h[t].fault.info /\ h[t].fault.record
    /\ ~is_fatal_exception(h[t].fault.code)
    /\ Return(t)
    /\ UNCHANGED <<vehChain, loads, sinkInit, symInit, host>>

\* ctd::ExceptionData data; data.code = code; data.address = ...ExceptionAddress;
ExceptionData(f) ==
    [NoData EXCEPT !.code = f.code, !.address = f.address]

veh_handler_build(t) ==
    /\ h[t].pc = "entry"
    /\ h[t].fault.info /\ h[t].fault.record
    /\ is_fatal_exception(h[t].fault.code)
    /\ h' = [h EXCEPT ![t].pc = "capture", ![t].data = ExceptionData(h[t].fault)]
    /\ obs' = [obs EXCEPT ![t].built = @ + 1]
    /\ UNCHANGED <<vehChain, loads, sinkInit, symInit, host>>

(***************************************************************************)
(* capture_stack_trace(info->ContextRecord).                               *)
(***************************************************************************)
\* SymSetOptions; SymInitialize; frame.AddrPC.Offset = context->Eip; ...
capture_stack_trace_begin(t) ==
    /\ h[t].pc = "capture"
    /\ h[t].fault.context
    /\ symInit' = TRUE
    /\ h' = [h EXCEPT ![t].pc = "walk", ![t].i = 0, ![t].trace = <<>>,
                      ![t].hex = FALSE]
    /\ obs' = [obs EXCEPT ![t].walks = @ + 1]
    /\ UNCHANGED <<vehChain, loads, sinkInit, host>>

\* context == nullptr: the read of context->Eip faults inside the handler, which
\* never returns
capture_stack_trace_null(t) ==
    /\ h[t].pc = "capture"
    /\ ~h[t].fault.context
    /\ symInit' = TRUE
    /\ h' = [h EXCEPT ![t].pc = "aborted"]
    /\ obs' = [obs EXCEPT ![t].walks = @ + 1]
    /\ UNCHANGED <<vehChain, loads, sinkInit, host>>

\* i <= 64
LoopCond_inclusive(i) == i <= MaxFrames

\* i < 64
LoopCond(i) == i < MaxFrames

\* the loop without its test of frame.AddrPC.Offset == 0
WalkBreaks_failure_only(r) == ~r.ok

\* if (!StackWalk(...)) break;  if (frame.AddrPC.Offset == 0) break;
WalkBreaks(r) == ~r.ok \/ r.pc = 0

\* the line streamed for one frame; std::hex stays set on the stream afterwards
TraceLine(i, hex, pc, nameless) ==
    LET addr == pc
        module == get_module_name(addr, nameless)
        base == get_module_base(addr)
        offset == pc - base
    IN  [index |-> i, indexText |-> Digits(i, IF hex THEN 16 ELSE 10),
         module |-> module, offset |-> offset, offsetText |-> Digits(offset, 16),
         address |-> pc, addressText |-> Digits(pc, 16)]

\* one iteration that streams a frame
capture_stack_trace_frame(t) ==
    LET r == StackWalk(h[t].fault, h[t].i + 1)
    IN  /\ h[t].pc = "walk"
        /\ LoopCond(h[t].i)
        /\ ~WalkBreaks(r)
        /\ h' = [h EXCEPT ![t].trace = Append(@, TraceLine(h[t].i, h[t].hex, r.pc,
                                                       h[t].fault.nameless)),
                          ![t].hex = TRUE,
                          ![t].i = @ + 1]
        /\ obs' = [obs EXCEPT ![t].steps = @ + 1]
        /\ UNCHANGED <<vehChain, loads, sinkInit, symInit, host>>

\* one iteration that breaks out of the loop
capture_stack_trace_break(t) ==
    LET r == StackWalk(h[t].fault, h[t].i + 1)
    IN  /\ h[t].pc = "walk"
        /\ LoopCond(h[t].i)
        /\ WalkBreaks(r)
        /\ h' = [h EXCEPT ![t].pc = "walked"]
        /\ obs' = [obs EXCEPT ![t].steps = @ + 1]
        /\ UNCHANGED <<vehChain, loads, sinkInit, symInit, host>>

\* the loop condition fails
capture_stack_trace_cap(t) ==
    /\ h[t].pc = "walk"
    /\ ~LoopCond(h[t].i)
    /\ h' = [h EXCEPT ![t].pc = "walked"]
    /\ UNCHANGED <<vehChain, loads, sinkInit, symInit, obs, host>>

\* SymCleanup(process); return trace.str();  data.stack_trace = ...
capture_stack_trace_end(t) ==
    /\ h[t].pc = "walked"
    /\ symInit' = FALSE
    /\ h' = [h EXCEPT ![t].pc = "handoff", ![t].data.stack_trace = h[t].trace]
    /\ UNCHANGED <<vehChain, loads, sinkInit, obs, host>>

\* data.faulting_module = get_module_name(ExceptionAddress);
\* ctd::handle_crash(data); return EXCEPTION_CONTINUE_SEARCH;
veh_handler_handoff(t) ==
    LET data == [h[t].data EXCEPT !.faulting_module =
                    get_module_name(h[t].fault.address, h[t].fault.nameless)]
    IN  /\ h[t].pc = "handoff"
        /\ h' = [h EXCEPT ![t].pc = "dispatch", ![t].data = data,
                          ![t].ret = EXCEPTION_CONTINUE_SEARCH]
        /\ obs' = [obs EXCEPT ![t].calls = @ + 1, ![t].faultCalls = @ + 1,
                              ![t].handed = Append(@, data),
                              ![t].returned = @ + 1]
        /\ UNCHANGED <<vehChain, loads, sinkInit, symInit, host>>

(***************************************************************************)
(* Specification: the load hook and faults on one thread.                  *)
(***************************************************************************)
FaultThreads == {1}

Next ==
    \/ NVSEPlugin_Load
    \/ \E t \in FaultThreads :
        \/ Fault(t)
        \/ NestedFault(t)
        \/ Dispatch(t)
        \/ DispatchDone(t)
        \/ veh_handler_null(t)
        \/ veh_handler_ignore(t)
        \/ veh_handler_build(t)
        \/ capture_stack_trace_begin(t)
        \/ capture_stack_trace_null(t)
        \/ capture_stack_trace_frame(t)
        \/ capture_stack_trace_break(t)
        \/ capture_stack_trace_cap(t)
        \/ capture_stack_trace_end(t)
        \/ veh_handler_handoff(t)

Spec == Init /\ [][Next]_vars

(***************************************************************************)
(* Two threads faulting at once.  SymInitialize and SymCleanup act on the  *)
(* one symbol handler of the process, and StackWalk reaches it through     *)
(* SymFunctionTableAccess and SymGetModuleBase.  A StackWalk call made     *)
(* after another invocation's SymCleanup finds no symbol handler: it may   *)
(* still unwind as before, or report failure.                              *)
(***************************************************************************)
\* StackWalk returns FALSE because the symbol handler is gone: break
capture_stack_trace_torn(t) ==
    /\ h[t].pc = "walk"
    /\ LoopCond(h[t].i)
    /\ ~symInit
    /\ h' = [h EXCEPT ![t].pc = "walked"]
    /\ obs' = [obs EXCEPT ![t].steps = @ + 1]
    /\ UNCHANGED <<vehChain, loads, sinkInit, symInit, host>>

\* the faults of the two-thread model: access violations with a sound stack
ConcFaults ==
    [info : {TRUE}, record : {TRUE}, context : {TRUE},
     code : {EXCEPTION_ACCESS_VIOLATION}, address : {AddrInExe},
     eip : {AddrInExe}, stack : {<<>>, <<AddrDllBase>>, <<AddrDllBase, AddrHeap>>},
     chainEnd : {"fail", "zero"}, nameless : {{}}]

ConcFault(t) ==
    /\ h[t].pc = "idle"
    /\ \E f \in ConcFaults : Raise(t, f)

\* the plugin is loaded; no thread has faulted yet
InitConc ==
    /\ vehChain = 1
    /\ loads = 1
    /\ sinkInit = TRUE
    /\ symInit = FALSE
    /\ h = [t \in Threads |-> Idle]
    /\ obs = [t \in Threads |-> NoObs]
    /\ host = GameHost

NextConc ==
    \E t \in Threads :
        \/ ConcFault(t)
        \/ Dispatch(t)
        \/ DispatchDone(t)
        \/ veh_handler_build(t)
        \/ capture_stack_trace_begin(t)
        \/ capture_stack_trace_frame(t)
        \/ capture_stack_trace_break(t)
        \/ capture_stack_trace_torn(t)
        \/ capture_stack_trace_end(t)
        \/ veh_handler_handoff(t)

ConcSpec == InitConc /\ [][NextConc]_vars

(***************************************************************************)
(* Specification for the classifier alone: veh_handler has just been       *)
(* entered with a fault code drawn from a grid of 32-bit codes.            *)
(***************************************************************************)
HiWords == {0, 16384, 32768, 49152, 49153, 65535}
LoWords == {0, 3, 5, 6, 7, 8, 29, 148, 149, 150, 253, 884, 1033, 65535}
ClassifyCodes == {<<hi, lo>> : hi \in HiWords, lo \in LoWords}

InitClassify ==
    /\ vehChain = 1
    /\ loads = 1
    /\ sinkInit = TRUE
    /\ symInit = FALSE
    /\ \E c \in ClassifyCodes :
        h = [t \in Threads |->
                IF t = 1
                THEN [Idle EXCEPT !.pc = "entry",
                        !.fault = [NoFault EXCEPT !.info = TRUE, !.record = TRUE,
                                     !.context = TRUE, !.code = c,
                                     !.address = AddrInExe, !.eip = AddrInExe]]
                ELSE Idle]
    /\ obs = [t \in Threads |-> NoObs]
    /\ host = GameHost

NextClassify ==
    \/ veh_handler_ignore(1)
    \/ veh_handler_build(1)

ClassifySpec == InitClassify /\ [][NextClassify]_vars

(***************************************************************************)
(* The loader's calls into a host adapter: the query hook, the load hook   *)
(* statement by statement, the messages of the host's messaging facility,  *)
(* and the loader-version provider.                                        *)
(***************************************************************************)
\* most messages the host sends in one run of the model
MaxMessages == 2

\* xSEPlugin_Query(iface, info)
Query ==
    /\ host.pc = "start"
    /\ host' = [host EXCEPT !.pc = "queried",
                            !.info = PluginInfo(host.adapter),
                            !.accepted = IF Plugin_Query(host.adapter, host.iface)
                                         THEN "accept" ELSE "reject"]
    /\ UNCHANGED <<vehChain, loads, sinkInit, symInit, h, obs>>

\* xSEPlugin_Load, called after the query accepted:
\* g_fose = fose; ctd::register_veh_handler();
Load_register ==
    /\ host.pc = "queried"
    /\ host.accepted = "accept"
    /\ host' = [host EXCEPT !.pc = "registered",
                            !.g_iface = host.adapter \in {"fallout3", "falloutnv"}]
    /\ vehChain' = register_veh_handler(vehChain)
    /\ UNCHANGED <<loads, sinkInit, symInit, h, obs>>

\* g_messaging = QueryInterface(kInterface_Messaging);
\* if (g_messaging) g_messaging->RegisterListener(..., MessageHandler);
Load_listen ==
    /\ host.pc = "registered"
    /\ Listens(host.adapter)
    /\ host' = [host EXCEPT !.pc = "listening", !.listener = host.iface.messaging]
    /\ UNCHANGED <<vehChain, loads, sinkInit, symInit, h, obs>>

\* ctd::init(); return true;
Load_init ==
    /\ host.pc = IF Listens(host.adapter) THEN "listening" ELSE "registered"
    /\ host' = [host EXCEPT !.pc = "loaded"]
    /\ sinkInit' = TRUE
    /\ loads' = loads + 1
    /\ UNCHANGED <<vehChain, symInit, h, obs>>

\* the messaging facility sends one message; a registered listener gets it
HostMessage ==
    /\ host.pc = "loaded"
    /\ host.iface.messaging
    /\ host.msgs < MaxMessages
    /\ \E type \in MessageTypes(host.adapter) :
        host' = [host EXCEPT !.msgs = @ + 1, !.msg = type,
                    !.called = IF host.listener
                               THEN MessageHandler(host.adapter, type) ELSE 0]
    /\ UNCHANGED <<vehChain, loads, sinkInit, symInit, h, obs>>

\* ctd::get_fose_version() / ctd::get_nvse_version(), at any time
GetLoaderVersion ==
    /\ host.adapter \in VersionProviders
    /\ host' = [host EXCEPT !.asked = TRUE, !.askedLive = host.g_iface,
                    !.versionText = get_loader_version(host.adapter, host.g_iface,
                                                       host.iface)]
    /\ UNCHANGED <<vehChain, loads, sinkInit, symInit, h, obs>>

InitHost ==
    /\ vehChain = 0
    /\ loads = 0
    /\ sinkInit = FALSE
    /\ symInit = FALSE
    /\ h = [t \in Threads |-> Idle]
    /\ obs = [t \in Threads |-> NoObs]
    /\ \E a \in Adapters, iface \in HostInterfaces : host = NewHost(a, iface)

NextHost ==
    \/ Query
    \/ Load_register
    \/ Load_listen
    \/ Load_init
    \/ HostMessage
    \/ GetLoaderVersion

HostSpec == InitHost /\ [][NextHost]_vars

(***************************************************************************)
(* The load hook interleaved with a fault on another thread.               *)
(***************************************************************************)
LoadInterfaces ==
    [version : {Pack(6, 1, 0, 0)}, isEditor : {FALSE}, messaging : BOOLEAN]

\* the loader has called the query hook and got accept
InitLoad ==
    /\ vehChain = 0
    /\ loads = 0
    /\ sinkInit = FALSE
    /\ symInit = FALSE
    /\ h = [t \in Threads |-> Idle]
    /\ obs = [t \in Threads |-> NoObs]
    /\ \E a \in Adapters, iface \in LoadInterfaces :
        host = [NewHost(a, iface) EXCEPT !.pc = "queried",
                    !.info = PluginInfo(a), !.accepted = "accept"]

NextLoad ==
    \/ Load_register
    \/ Load_listen
    \/ Load_init
    \/ \E t \in FaultThreads :
        \/ ConcFault(t)
        \/ Dispatch(t)
        \/ DispatchDone(t)
        \/ veh_handler_build(t)
        \/ capture_stack_trace_begin(t)
        \/ capture_stack_trace_frame(t)
        \/ capture_stack_trace_break(t)
        \/ capture_stack_trace_end(t)
        \/ veh_handler_handoff(t)

LoadSpec == InitLoad /\ [][NextLoad]_vars

(***************************************************************************)
(* Vocabulary of the properties.                                           *)
(***************************************************************************)
\* the fatal set as the classifier's contract enumerates it
FatalSet ==
    { EXCEPTION_ACCESS_VIOLATION, EXCEPTION_STACK_OVERFLOW,
      EXCEPTION_ILLEGAL_INSTRUCTION, EXCEPTION_INT_DIVIDE_BY_ZERO,
      EXCEPTION_INT_OVERFLOW, EXCEPTION_PRIV_INSTRUCTION,
      EXCEPTION_IN_PAGE_ERROR, EXCEPTION_INVALID_HANDLE,
      <<49152, 884>>, <<49152, 1033>> }

\* veh_handler was called with an exception record
HasRecord(t) == h[t].fault.info /\ h[t].fault.record

\* the invocation of veh_handler on thread t has returned to the dispatcher
HasReturned(t) == h[t].pc = "dispatch" /\ obs[t].returned > 0

\* the invocation is over, by a return or by a fault of its own
HasEnded(t) == HasReturned(t) \/ h[t].pc = "aborted"

\* the walk of the current invocation is over and its trace still in place
WalkOver(t) ==
    \/ h[t].pc \in {"walked", "handoff"}
    \/ HasReturned(t) /\ obs[t].calls = 1

Last(s) == s[Len(s)]

\* the image whose mapped range holds the address
Holds(m, address) == m.base <= address /\ address < m.base + m.size

\* every frame line the handler has produced so far on thread t
LinesOf(t) ==
    {h[t].trace[k] : k \in 1..Len(h[t].trace)}
    \cup UNION {{obs[t].handed[j].stack_trace[k] :
                    k \in 1..Len(obs[t].handed[j].stack_trace)} :
                j \in 1..Len(obs[t].handed)}

\* the number of frames before the first unwind failure, null program counter
\* or the cap
WalkLength(f) ==
    CHOOSE n \in 0..MaxFrames :
        /\ \A k \in 1..n : StackWalk(f, k).ok /\ StackWalk(f, k).pc # 0
        /\ \/ n = MaxFrames
           \/ ~StackWalk(f, n + 1).ok
           \/ StackWalk(f, n + 1).pc = 0

(***************************************************************************)
(* C1.  An invocation of veh_handler whose exception code is not in the    *)
(* fatal set builds no ExceptionData, starts no stack walk, never calls    *)
(* handle_crash, and returns EXCEPTION_CONTINUE_SEARCH.                    *)
(***************************************************************************)
C1_IgnoredFaultPassesThrough ==
    \A t \in Threads :
        (HasRecord(t) /\ h[t].fault.code \notin FatalSet) =>
            /\ h[t].pc \in {"dispatch", "entry"}
            /\ obs[t].built = 0
            /\ obs[t].walks = 0
            /\ obs[t].steps = 0
            /\ obs[t].calls = 0
            /\ obs[t].handed = <<>>
            /\ h[t].data = NoData
            /\ h[t].trace = <<>>
            /\ HasReturned(t) => h[t].ret = EXCEPTION_CONTINUE_SEARCH

C1_Witness ==
    \E t \in Threads :
        /\ HasRecord(t)
        /\ h[t].fault.code = EXCEPTION_BREAKPOINT
        /\ HasReturned(t)
        /\ h[t].ret = EXCEPTION_CONTINUE_SEARCH

(***************************************************************************)
(* C2.  Every invocation of veh_handler with an exception record whose     *)
(* code is in the fatal set builds exactly one ExceptionData and calls     *)
(* handle_crash exactly once, with record.code the fault code and          *)
(* record.address the reported ExceptionAddress.                           *)
(***************************************************************************)
C2_OneRecordPerFatalInvocation ==
    \A t \in Threads :
        /\ obs[t].built <= 1
        /\ obs[t].calls <= 1
        /\ (HasRecord(t) /\ h[t].fault.code \in FatalSet /\ HasEnded(t)) =>
            /\ obs[t].built = 1
            /\ obs[t].calls = 1
            /\ Last(obs[t].handed).code = h[t].fault.code
            /\ Last(obs[t].handed).address = h[t].fault.address

(***************************************************************************)
(* C3.  However often the handler was registered, one fault leads to at    *)
(* most one handle_crash call.                                             *)
(***************************************************************************)
C3_NoDuplicateEmission ==
    \A t \in Threads : obs[t].faultCalls <= 1

(***************************************************************************)
(* C4.  Every invocation of veh_handler, whatever the argument shape, runs *)
(* to completion and returns EXCEPTION_CONTINUE_SEARCH; it never ends      *)
(* abnormally.                                                             *)
(***************************************************************************)
C4_AlwaysRunsToCompletion ==
    \A t \in Threads :
        /\ h[t].pc # "aborted"
        /\ h[t].ret \in {"none", EXCEPTION_CONTINUE_SEARCH}
        /\ HasReturned(t) => h[t].ret = EXCEPTION_CONTINUE_SEARCH

(***************************************************************************)
(* C5.  Whatever the unwinder does, a walk makes at most 64 StackWalk      *)
(* calls and its trace holds at most 64 frames.                            *)
(***************************************************************************)
C5_WalkBounded ==
    \A t \in Threads :
        /\ obs[t].steps <= 64
        /\ Len(h[t].trace) <= 64
        /\ Len(h[t].data.stack_trace) <= 64
        /\ \A j \in 1..Len(obs[t].handed) : Len(obs[t].handed[j].stack_trace) <= 64

C5_Witness ==
    \E t \in Threads :
        /\ h[t].pc = "walked"
        /\ h[t].fault.chainEnd = "loop"
        /\ obs[t].steps = 64
        /\ Len(h[t].trace) = 64

(***************************************************************************)
(* C6.  The walk ends at the first iteration in which StackWalk fails, the *)
(* program counter is zero or 64 frames are collected; the trace is then   *)
(* exactly the frames before that point, indexed 0..n-1 from the innermost *)
(* outwards.  When unwinding fails on the 3rd frame the trace has exactly  *)
(* the 3 frames 0, 1, 2 and the walk has stopped.                          *)
(***************************************************************************)
C6_WalkEndsAtFirstStop ==
    \A t \in Threads :
        WalkOver(t) =>
            LET f == h[t].fault
                n == WalkLength(f)
            IN  /\ Len(h[t].trace) = n
                /\ \A k \in 1..n :
                    /\ h[t].trace[k].index = k - 1
                    /\ h[t].trace[k].address = StackWalk(f, k).pc
                /\ h[t].pc # "walked" => h[t].data.stack_trace = h[t].trace
                /\ (f.eip # 0 /\ Len(f.stack) = 2 /\ f.chainEnd = "fail") =>
                    /\ Len(h[t].trace) = 3
                    /\ obs[t].steps = 4

C6_Witness ==
    \E t \in Threads :
        /\ HasReturned(t)
        /\ obs[t].calls = 1
        /\ h[t].fault.eip # 0
        /\ Len(h[t].fault.stack) = 2
        /\ h[t].fault.chainEnd = "fail"
        /\ Len(Last(obs[t].handed).stack_trace) = 3
        /\ Last(obs[t].handed).stack_trace[3].index = 2

C8_FrameNameMatchesOffset ==
    \A t \in Threads : \A line \in LinesOf(t) :
        /\ \/ \E m \in Modules :
                /\ Holds(m, line.address)
                /\ line.module = <<m.file>>
                /\ line.offset = line.address - m.base
           \/ /\ line.module = Unknown
              /\ line.offset = line.address
        /\ (\A m \in Modules : ~Holds(m, line.address)) =>
                /\ line.module = Unknown
                /\ line.offset = line.address

(***************************************************************************)
(* C9.  For an access violation at A = B + 0x1234 inside module M (base B) *)
(* the record handed to handle_crash has faulting_module = name(M), and    *)
(* its first frame, index 0, is the faulting location with offset 0x1234.  *)
(* The fault's context carries the faulting instruction: Eip = A.          *)
(***************************************************************************)
FaultInModule(t, m) ==
    /\ h[t].fault.code = EXCEPTION_ACCESS_VIOLATION
    /\ Holds(m, h[t].fault.address)
    /\ h[t].fault.eip = h[t].fault.address

FirstFrameIsFault(t, m, data) ==
    /\ Len(data.stack_trace) >= 1
    /\ data.stack_trace[1].index = 0
    /\ data.stack_trace[1].address = h[t].fault.address
    /\ data.stack_trace[1].offset = h[t].fault.address - m.base
    /\ h[t].fault.address = AddrInExe => data.stack_trace[1].offset = 4660

C10_FatalExactlyForTheTen ==
    \A t \in Threads :
        /\ h[t].pc = "capture" => h[t].fault.code \in FatalSet
        /\ (HasRecord(t) /\ HasReturned(t) /\ obs[t].built = 0) =>
                h[t].fault.code \notin FatalSet
        /\ (HasRecord(t) /\ h[t].pc = "entry") =>
                ENABLED (veh_handler_ignore(t) \/ veh_handler_build(t))

C10_Witness ==
    \E t \in Threads :
        /\ h[t].pc = "capture"
        /\ h[t].fault.code = <<49152, 1033>>
        /\ obs[t].built = 1

(***************************************************************************)
(* C11.  Two invocations of veh_handler on concurrently faulting threads   *)
(* are independent: under every interleaving each walk runs with the       *)
(* symbol handler its own SymInitialize set up, untouched by the other     *)
(* invocation's SymCleanup, and each invocation hands over the record it   *)
(* would produce alone.                                                    *)
(***************************************************************************)
\* the trace the walk of fault f yields when nothing interferes
TraceAlone(f) ==
    [k \in 1..WalkLength(f) |->
        TraceLine(k - 1, k > 1, StackWalk(f, k).pc, f.nameless)]

C11_ConcurrentInvocationsIndependent ==
    \A t \in Threads :
        /\ h[t].pc = "walk" => symInit
        /\ \A j \in 1..Len(obs[t].handed) :
            obs[t].handed[j].stack_trace = TraceAlone(h[t].fault)

(***************************************************************************)
(* C12.  The stack_trace text has one line per collected frame, in frame   *)
(* order; the line at position k shows k as a decimal number, then the     *)
(* module name, the offset in hex and the absolute address in hex.         *)
(***************************************************************************)
C12_LinesShowDecimalIndex ==
    \A t \in Threads : \A k \in 1..Len(h[t].trace) :
        LET line == h[t].trace[k]
        IN  /\ line.index = k - 1
            /\ line.indexText = Digits(k - 1, 10)
            /\ line.offsetText = Digits(line.offset, 16)
            /\ line.addressText = Digits(line.address, 16)

(***************************************************************************)
(* C13.  In every host adapter the query hook rejects exactly when the     *)
(* host reports an editor context or its interface version is below the    *)
(* host's required minimum, and accepts otherwise; either way the plugin   *)
(* metadata (info version, name, version) has been filled in.              *)
(***************************************************************************)
\* the minimum each host requires; SKSE and F4SE builds name none
RequiredVersion(a) ==
    CASE a = "fallout3" -> FOSE_VERSION_INTEGER
      [] a \in {"falloutnv", "newvegas"} -> NVSE_VERSION_INTEGER
      [] a \in {"skyrim", "fallout4"} -> 0

C13_QueryRejectsEditorOrOldHost ==
    host.accepted # "none" =>
        /\ host.accepted = "reject" <=>
                \/ host.iface.isEditor
                \/ host.iface.version < RequiredVersion(host.adapter)
        /\ host.info.infoVersion # ""
        /\ host.info.name = "CTD Crash Reporter"
        /\ host.info.version = 1

(***************************************************************************)
(* C14.  For every packed version v the loader-version provider returns    *)
(* byte3.byte2.(byte1<<8|byte0) or byte3.byte2.byte1 of v, and "unknown"    *)
(* when asked while the load hook has not yet stored the host interface.   *)
(***************************************************************************)
C14_LoaderVersionText ==
    LET v == host.iface.version
        head == <<Digits(Byte(v, 3), 10), Digits(Byte(v, 2), 10)>>
    IN  (host.asked /\ host.adapter \in {"fallout3", "falloutnv"}) =>
            IF host.askedLive
            THEN \/ host.versionText =
                        Append(head, Digits(Byte(v, 1) * 256 + Byte(v, 0), 10))
                 \/ host.versionText = Append(head, Digits(Byte(v, 1), 10))
            ELSE host.versionText = Unknown

(***************************************************************************)
(* C15.  In every host adapter, once the load hook has run, each message   *)
(* of the host's messaging facility that signals that game data has        *)
(* finished loading leads to exactly one call of on_data_loaded(), and a   *)
(* message of any other type to none.                                      *)
(***************************************************************************)
\* the message types that carry the data-loaded signal, per host
SignalsDataLoaded(a, type) ==
    CASE a \in {"fallout3", "falloutnv", "newvegas"} ->
            type \in {"kMessage_PostLoadGame", "kMessage_PostLoad"}
      [] a = "skyrim" -> type = "kDataLoaded"
      [] a = "fallout4" -> type = "kGameDataReady"

C15_OneCallPerDataLoadedMessage ==
    host.msg # "none" =>
        host.called = IF SignalsDataLoaded(host.adapter, host.msg) THEN 1 ELSE 0

(***************************************************************************)
(* C16.  In every interleaving of a load hook with faults on other         *)
(* threads, handle_crash is never called before ctd::init() has returned.  *)
(***************************************************************************)
C16_NoHandoffBeforeInit ==
    [][\A t \in Threads : veh_handler_handoff(t) => sinkInit]_vars

====
